---- MODULE Spec2Model ----
(***************************************************************************)
(* Model of the omnidirectional-video to pinhole-rig converter             *)
(* (src/src/omni_processor.py): the OmniVideoProcessor object, its         *)
(* construction, set_params and the steps of process_video.                *)
(*                                                                         *)
(* A frame is identified by its source index in the video stream.  Angles  *)
(* are whole degrees.  Quaternions and focal lengths, floats in the code,  *)
(* are fixed-point integers (unit 1/Scale and 1/FocalUnit).                *)
(***************************************************************************)
EXTENDS Integers, Sequences, FiniteSets, TLC

\* ------------------------------------------------------------------ bounds
MaxViews == 2
MaxFrames == 4
MaxInterval == 3

\* ------------------------------------------------------------- view catalog
View(n, p, y) == [name |-> n, pitch |-> p, yaw |-> y]

\* The catalog of the default parameter dictionary, in insertion order.
DefaultViews ==
    << View("pitch_35_yaw_0", 35, 0),
       View("pitch_35_yaw_90", 35, 60),
       View("pitch_35_yaw_-90", 35, -90),
       View("pitch_35_yaw_180", 35, 180),
       View("pitch_-35_yaw_0", -35, 0),
       View("pitch_-35_yaw_90", -35, 60),
       View("pitch_-35_yaw_-90", -35, -90),
       View("pitch_-35_yaw_180", -35, 180) >>

DefaultParams ==
    [ fx |-> 320, fy |-> 320, cx |-> 320, cy |-> 320,
      height |-> 640, width |-> 640, fov_h |-> 90, fov_v |-> 90,
      frame_interval |-> 24, views |-> DefaultViews ]

\* Views a caller may put in a catalog handed to the constructor or set_params.
ViewUniverse ==
    { View("pitch_35_yaw_0", 35, 0),
      View("pitch_0_yaw_0", 0, 0),
      View("pitch_0_yaw_90", 0, 90),
      View("front", 0, 0) }

\* A catalog is a dict name -> (pitch, yaw): ordered by insertion, keys unique.
UniqueNames(c) == \A i, j \in 1..Len(c) : c[i].name = c[j].name => i = j

Catalogs ==
    { c \in UNION { [1..n -> ViewUniverse] : n \in 0..MaxViews } : UniqueNames(c) }

\* (fov_h, fov_v) pairs a caller may supply; the dictionary is not validated.
FovPairs == { <<90, 90>>, <<180, 90>>, <<90, 0>> }

ParamChoices ==
    { [ fx |-> 320, fy |-> 320, cx |-> 320, cy |-> 320,
        height |-> 640, width |-> 640, fov_h |-> f[1], fov_v |-> f[2],
        frame_interval |-> k, views |-> c ]
      : c \in Catalogs, k \in 1..MaxInterval, f \in FovPairs }

\* Dictionaries that differ in the intrinsics a caller sets with the sliders
\* (width, height, cx, fx, fov_h) over one two-view catalog.
IntrinsicsChoices ==
    { [ fx |-> f, fy |-> f, cx |-> c, cy |-> 320,
        height |-> h, width |-> w, fov_h |-> fov, fov_v |-> 90,
        frame_interval |-> 1,
        views |-> << View("pitch_35_yaw_0", 35, 0), View("pitch_0_yaw_90", 0, 90) >> ]
      : f \in { 320, 500 }, c \in { 320, 500 }, h \in { 480, 640 },
        w \in { 640, 1000 }, fov \in { 60, 90 } }

Names(c) == { c[i].name : i \in 1..Len(c) }

\* ------------------------------------------------------------------- state
VARIABLES
    pc,                     \* "new", "idle", "extract", "generate", "save_params",
                            \* "save_rig", "done", "failed"
    error,                  \* exception raised by the last call, or "none"
    params,                 \* self.params
    ref_sensor,             \* self.ref_sensor
    video_file,             \* kind of the video_file argument of the current run:
                            \* "path" (a stream to decode), "frames" (a batch in
                            \* memory), "none" outside a run
    video_opened,           \* video.isOpened() of the current run
    frame_count,            \* CAP_PROP_FRAME_COUNT of the current run
    frame_idx,              \* loop variable of _extract_frames
    reads,                  \* number of video.read() calls = stream position
    read_failed_at,         \* stream position whose read returned ret = False, or -1
    pano_images,            \* frames collected by _extract_frames (source indices)
    pano_files,             \* names of the pano_<idx>.jpg files written
    gen_frame,              \* position of the outer loop of _generate_pinhole_images
    gen_view,               \* position of its inner loop
    render_failed_at,       \* <<pano_idx, view_name>> whose render raised, or <<>>
    pinhole_images,         \* the list _generate_pinhole_images returns
    pinhole_files,          \* save paths written
    pinhole_camera_params,  \* records collected for camera_params.json
    camera_rig_params,      \* ordered dict collected for the rig
    camera_params_doc,      \* camera_params.json of this run, or NotWritten
    rig_doc,                \* rig_config.json of this run, or NotWritten
    runner                  \* the reconstruction runner: its arguments, its position,
                            \* the commands it has executed with their return codes

vars == << pc, error, params, ref_sensor, video_file, video_opened, frame_count, frame_idx,
           reads, read_failed_at, pano_images, pano_files, gen_frame, gen_view,
           render_failed_at, pinhole_images, pinhole_files, pinhole_camera_params,
           camera_rig_params, camera_params_doc, rig_doc, runner >>

\* Everything but the runner.
processorVars == << pc, error, params, ref_sensor, video_file, video_opened, frame_count,
                    frame_idx, reads, read_failed_at, pano_images, pano_files, gen_frame,
                    gen_view, render_failed_at, pinhole_images, pinhole_files,
                    pinhole_camera_params, camera_rig_params, camera_params_doc, rig_doc >>

procVars == << params, ref_sensor >>
extractVars == << frame_idx, reads, read_failed_at, pano_images, pano_files >>
genVars == << gen_frame, gen_view, render_failed_at, pinhole_images, pinhole_files,
              pinhole_camera_params, camera_rig_params >>
docVars == << camera_params_doc, rig_doc >>

\* A document of the output directory: absent until a run writes it.
NotWritten == [ written |-> FALSE, content |-> << >> ]
Written(doc) == [ written |-> TRUE, content |-> doc ]
NoParams == "no object"

\* No reconstruction runner has been started.
NoRunner ==
    [ kind |-> "none", camera_model |-> "PINHOLE", camera_config |-> FALSE,
      visualize |-> FALSE, pc |-> "none", executed |-> << >>, error |-> "none" ]

\* The locals of a process_video call before its first statement.
RunLocalsClear ==
    /\ video_file' = "none"
    /\ video_opened' = FALSE
    /\ frame_count' = 0
    /\ frame_idx' = 0
    /\ reads' = 0
    /\ read_failed_at' = -1
    /\ pano_images' = << >>
    /\ pano_files' = {}
    /\ gen_frame' = 0
    /\ gen_view' = 0
    /\ render_failed_at' = << >>
    /\ pinhole_images' = << >>
    /\ pinhole_files' = {}
    /\ pinhole_camera_params' = << >>
    /\ camera_rig_params' = << >>
    /\ camera_params_doc' = NotWritten
    /\ rig_doc' = NotWritten

Init ==
    /\ pc = "new"
    /\ error = "none"
    /\ params = NoParams
    /\ ref_sensor = NoParams
    /\ video_file = "none"
    /\ video_opened = FALSE
    /\ frame_count = 0
    /\ frame_idx = 0
    /\ reads = 0
    /\ read_failed_at = -1
    /\ pano_images = << >>
    /\ pano_files = {}
    /\ gen_frame = 0
    /\ gen_view = 0
    /\ render_failed_at = << >>
    /\ pinhole_images = << >>
    /\ pinhole_files = {}
    /\ pinhole_camera_params = << >>
    /\ camera_rig_params = << >>
    /\ camera_params_doc = NotWritten
    /\ rig_doc = NotWritten
    /\ runner = NoRunner

\* ------------------------------------------------- construction, set_params
\* OmniVideoProcessor(params): params=None selects the default dictionary;
\* list(views.keys())[0] raises IndexError on an empty catalog.
Construct(p) ==
    /\ UNCHANGED runner
    /\ pc = "new"
    /\ IF Len(p.views) = 0
       THEN /\ error' = "IndexError"
            /\ UNCHANGED << pc, params, ref_sensor >>
       ELSE /\ params' = p
            /\ ref_sensor' = p.views[1].name
            /\ error' = "none"
            /\ pc' = "idle"
    /\ UNCHANGED << video_file, video_opened, frame_count, extractVars, genVars, docVars >>

\* set_params replaces the dictionary and nothing else.
set_params(p) ==
    /\ UNCHANGED runner
    /\ pc = "idle"
    /\ params' = p
    /\ UNCHANGED << pc, error, ref_sensor, video_file, video_opened, frame_count,
                    extractVars, genVars, docVars >>

\* ------------------------------------------------------ intrinsics (floats)
\* Fixed-point unit of the floats of the model (quaternion components, tan).
Scale == 10000
\* Focal lengths are kept in 1/FocalUnit pixels.
FocalUnit == 100

\* a / b rounded to the nearest integer, b > 0.
RoundDiv(a, b) ==
    IF a >= 0 THEN (2 * a + b) \div (2 * b) ELSE -((2 * (-a) + b) \div (2 * b))

\* np.tan(np.deg2rad(fov_deg) / 2) in units of 1/Scale.  tan(pi/2) is a finite
\* float64 of about 1.6e16: "huge" stands for it.
TanHalf(fov_deg) ==
    CASE fov_deg = 0 -> [kind |-> "finite", v |-> 0]
      [] fov_deg = 30 -> [kind |-> "finite", v |-> 2679]
      [] fov_deg = 60 -> [kind |-> "finite", v |-> 5774]
      [] fov_deg = 90 -> [kind |-> "finite", v |-> 10000]
      [] fov_deg = 120 -> [kind |-> "finite", v |-> 17321]
      [] fov_deg = 180 -> [kind |-> "huge", v |-> 0]

\* compute_focal_length: image_size / (2 * tan(fov/2)).  No range check: a
\* zero tangent gives the float inf (numpy divides without raising), the huge
\* tangent of fov = 180 gives a focal length that rounds to 0.
compute_focal_length(image_size, fov_deg) ==
    LET t == TanHalf(fov_deg)
    IN  IF t.kind = "huge" THEN [kind |-> "finite", v |-> 0]
        ELSE IF t.v = 0 THEN [kind |-> "inf", v |-> 0]
        ELSE [kind |-> "finite",
              v |-> RoundDiv(image_size * FocalUnit * Scale, 2 * t.v)]

\* ------------------------------------------------------------- file naming
RECURSIVE Digits(_)
Digits(n) == IF n < 10 THEN << n >> ELSE Append(Digits(n \div 10), n % 10)

\* f"{n:04d}": the decimal digits of n, zero-padded on the left to 4 at least.
Pad4(n) ==
    LET d == Digits(n)
    IN  IF Len(d) >= 4 THEN d ELSE [i \in 1..(4 - Len(d)) |-> 0] \o d

PanoName(idx) == << "pano_", Pad4(idx), ".jpg" >>
PinholeName(idx) == << "pinhole_", Pad4(idx), ".jpg" >>

\* A variant that writes every view into one directory.
SavePathFlat(view_name, pano_idx) ==
    [ parent |-> "images", name |-> PinholeName(pano_idx) ]

\* output_pinhole_dir / view_name / f"pinhole_{pano_idx:04d}.jpg"
SavePath(view_name, pano_idx) == [parent |-> view_name, name |-> PinholeName(pano_idx)]

\* ------------------------------------------------------------ process_video
\* A variant that never takes the raise branch.
OpenNeverFails(opened) == FALSE

\* if not video.isOpened(): raise IOError
OpenFails(opened) == ~opened

\* process_video up to the call of _extract_frames: an unopenable video
\* raises IOError before anything else is done.
process_video(N, opened) ==
    /\ UNCHANGED runner
    /\ pc = "idle"
    /\ video_file' = "path"
    /\ video_opened' = opened
    /\ frame_count' = N
    /\ IF OpenFails(opened)
       THEN /\ error' = "IOError"
            /\ pc' = "failed"
       ELSE /\ error' = "none"
            /\ pc' = "extract"
    /\ frame_idx' = 0
    /\ reads' = 0
    /\ read_failed_at' = -1
    /\ pano_images' = << >>
    /\ pano_files' = {}
    /\ gen_frame' = 0
    /\ gen_view' = 0
    /\ render_failed_at' = << >>
    /\ pinhole_images' = << >>
    /\ pinhole_files' = {}
    /\ pinhole_camera_params' = << >>
    /\ camera_rig_params' = << >>
    /\ camera_params_doc' = NotWritten
    /\ rig_doc' = NotWritten
    /\ UNCHANGED procVars

\* What cv2.VideoCapture raises for an argument that is neither a file name
\* nor a device index (the exception class depends on the OpenCV build).
BadArgumentErrors == { "cv2.error", "TypeError" }

\* process_video called with a batch of N frames held in memory, as
\* OmniVideoProcessorNode.process_video does with its IMAGE input: the batch
\* goes to cv2.VideoCapture, which raises before anything is read or written.
process_video_frames(N, e) ==
    /\ UNCHANGED runner
    /\ pc = "idle"
    /\ video_file' = "frames"
    /\ video_opened' = FALSE
    /\ frame_count' = N
    /\ error' = e
    /\ pc' = "failed"
    /\ frame_idx' = 0
    /\ reads' = 0
    /\ read_failed_at' = -1
    /\ pano_images' = << >>
    /\ pano_files' = {}
    /\ gen_frame' = 0
    /\ gen_view' = 0
    /\ render_failed_at' = << >>
    /\ pinhole_images' = << >>
    /\ pinhole_files' = {}
    /\ pinhole_camera_params' = << >>
    /\ camera_rig_params' = << >>
    /\ camera_params_doc' = NotWritten
    /\ rig_doc' = NotWritten
    /\ UNCHANGED procVars

\* A variant that keeps the last frame of every interval instead of the first.
IsSampledLast(idx, interval) == (idx + 1) % interval = 0

\* frame_idx % frame_interval == 0
IsSampled(idx, interval) == idx % interval = 0

\* A variant that ignores the result of the read.
NeverBreaks(ret) == FALSE

\* if not ret: break
ReadBreaks(ret) == ~ret

\* One iteration of the loop of _extract_frames.  video.read() returns the
\* frame at the stream position and advances it; ret = False breaks the loop.
extract_frames_step(ret) ==
    /\ UNCHANGED runner
    /\ pc = "extract"
    /\ frame_idx < frame_count
    /\ reads' = reads + 1
    /\ read_failed_at' = IF ~ret /\ read_failed_at = -1 THEN reads ELSE read_failed_at
    /\ IF ReadBreaks(ret)
       THEN /\ pc' = "generate"
            /\ gen_frame' = 1
            /\ gen_view' = 1
            /\ UNCHANGED << frame_idx, pano_images, pano_files >>
       ELSE /\ IF IsSampled(frame_idx, params.frame_interval)
               THEN /\ pano_images' = Append(pano_images, reads)
                    /\ pano_files' = pano_files \cup { PanoName(frame_idx) }
               ELSE UNCHANGED << pano_images, pano_files >>
            /\ frame_idx' = frame_idx + 1
            /\ UNCHANGED << pc, gen_frame, gen_view >>
    /\ UNCHANGED << error, procVars, video_file, video_opened, frame_count, render_failed_at,
                    pinhole_images, pinhole_files, pinhole_camera_params,
                    camera_rig_params, docVars >>

\* range(frame_count) is exhausted: _extract_frames returns, the video is
\* released and _generate_pinhole_images starts.
extract_frames_return ==
    /\ UNCHANGED runner
    /\ pc = "extract"
    /\ frame_idx >= frame_count
    /\ pc' = "generate"
    /\ gen_frame' = 1
    /\ gen_view' = 1
    /\ UNCHANGED << error, procVars, video_file, video_opened, frame_count, extractVars,
                    render_failed_at, pinhole_images, pinhole_files,
                    pinhole_camera_params, camera_rig_params, docVars >>

\* -------------------------------------------- _generate_pinhole_images
\* py360convert.e2p of one frame: the image is determined by the source
\* frame, the view angles, the two fields of view and the output size.
convert_to_pinhole(pano_image, pitch, yaw) ==
    [ frame |-> pano_image, v_deg |-> pitch, u_deg |-> yaw,
      fov_deg |-> << params.fov_h, params.fov_v >>,
      out_hw |-> << params.height, params.width >> ]

create_camera_params_configured(save_path, pano_idx, view_name, pitch, yaw, is_ref) ==
    [ image_name |-> save_path.name,
      fx |-> [kind |-> "finite", v |-> params.fx * FocalUnit],
      fy |-> [kind |-> "finite", v |-> params.fy * FocalUnit],
      cx |-> params.cx,
      cy |-> params.cy,
      height |-> params.height,
      width |-> params.width,
      fov_h |-> params.fov_h,
      fov_v |-> params.fov_v,
      image_prefix |-> view_name,
      yaw |-> yaw,
      pitch |-> pitch,
      pano_index |-> pano_idx,
      ref_sensor |-> is_ref ]

create_camera_params(save_path, pano_idx, view_name, pitch, yaw, is_ref) ==
    [ image_name |-> save_path.name,
      fx |-> compute_focal_length(params.width, params.fov_h),
      fy |-> compute_focal_length(params.height, params.fov_v),
      cx |-> params.cx,
      cy |-> params.cy,
      height |-> params.height,
      width |-> params.width,
      fov_h |-> params.fov_h,
      fov_v |-> params.fov_v,
      image_prefix |-> view_name,
      yaw |-> yaw,
      pitch |-> pitch,
      pano_index |-> pano_idx,
      ref_sensor |-> is_ref ]

\* view_name == self.ref_sensor
IsRefSensor(view_name) == view_name = ref_sensor

RigKeys(rig_params) == { rig_params[i].image_prefix : i \in 1..Len(rig_params) }

\* if view_name not in camera_rig_params: camera_rig_params[view_name] = {...}
RigParamsAdd(rig_params, v) ==
    IF v.name \in RigKeys(rig_params)
    THEN rig_params
    ELSE Append(rig_params,
                [ image_prefix |-> v.name, yaw |-> v.yaw, pitch |-> v.pitch,
                  ref_sensor |-> IsRefSensor(v.name) ])

\* One iteration of the inner loop: render, write, record.  An exception of
\* the renderer (ok = FALSE) is caught nowhere and leaves process_video.
generate_pinhole_step(ok) ==
    /\ UNCHANGED runner
    /\ pc = "generate"
    /\ gen_frame <= Len(pano_images)
    /\ Len(params.views) > 0
    /\ LET pano_idx == gen_frame - 1
           v == params.views[gen_view]
           save_path == SavePath(v.name, pano_idx)
       IN  IF ~ok
           THEN /\ error' = "RenderError"
                /\ pc' = "failed"
                /\ render_failed_at' = << pano_idx, v.name >>
                /\ UNCHANGED << gen_frame, gen_view, pinhole_images, pinhole_files,
                                pinhole_camera_params, camera_rig_params >>
           ELSE /\ pinhole_files' = pinhole_files \cup { save_path }
                /\ pinhole_images' =
                       Append(pinhole_images,
                              [ pano_idx |-> pano_idx, view_name |-> v.name,
                                image |-> convert_to_pinhole(pano_images[gen_frame],
                                                             v.pitch, v.yaw) ])
                /\ pinhole_camera_params' =
                       Append(pinhole_camera_params,
                              create_camera_params(save_path, pano_idx, v.name,
                                                   v.pitch, v.yaw, IsRefSensor(v.name)))
                /\ camera_rig_params' = RigParamsAdd(camera_rig_params, v)
                /\ IF gen_view < Len(params.views)
                   THEN /\ gen_view' = gen_view + 1
                        /\ UNCHANGED gen_frame
                   ELSE /\ gen_view' = 1
                        /\ gen_frame' = gen_frame + 1
                /\ UNCHANGED << pc, error, render_failed_at >>
    /\ UNCHANGED << procVars, video_file, video_opened, frame_count, extractVars, docVars >>

\* Both loops are exhausted (an empty catalog makes every outer iteration empty).
generate_pinhole_loops_end ==
    /\ UNCHANGED runner
    /\ pc = "generate"
    /\ (gen_frame > Len(pano_images) \/ Len(params.views) = 0)
    /\ pc' = "save_params"
    /\ UNCHANGED << error, procVars, video_file, video_opened, frame_count, extractVars,
                    genVars, docVars >>

\* _save_camera_params: json.dump of the collected list.
save_camera_params ==
    /\ UNCHANGED runner
    /\ pc = "save_params"
    /\ camera_params_doc' = Written(pinhole_camera_params)
    /\ pc' = "save_rig"
    /\ UNCHANGED << error, procVars, video_file, video_opened, frame_count, extractVars,
                    genVars, rig_doc >>

\* ------------------------------------------------- rotations (scipy Rotation)
\* cos and sin of half an angle, in units of 1/Scale.
CosHalfAbs(a) ==
    CASE a = 0 -> 10000
      [] a = 35 -> 9537
      [] a = 60 -> 8660
      [] a = 90 -> 7071
      [] a = 180 -> 0

SinHalfAbs(a) ==
    CASE a = 0 -> 0
      [] a = 35 -> 3007
      [] a = 60 -> 5000
      [] a = 90 -> 7071
      [] a = 180 -> 10000

CosHalf(deg) == IF deg >= 0 THEN CosHalfAbs(deg) ELSE CosHalfAbs(-deg)
SinHalf(deg) == IF deg >= 0 THEN SinHalfAbs(deg) ELSE -SinHalfAbs(-deg)

\* Quaternions are << x, y, z, w >>, scipy's order.
\* Hamilton product p * q, each component rounded to the unit.
quat_mul(p, q) ==
    << RoundDiv(p[4]*q[1] + p[1]*q[4] + p[2]*q[3] - p[3]*q[2], Scale),
       RoundDiv(p[4]*q[2] - p[1]*q[3] + p[2]*q[4] + p[3]*q[1], Scale),
       RoundDiv(p[4]*q[3] + p[1]*q[2] - p[2]*q[1] + p[3]*q[4], Scale),
       RoundDiv(p[4]*q[4] - p[1]*q[1] - p[2]*q[2] - p[3]*q[3], Scale) >>

\* Rotation.inv(): the conjugate.
quat_inv(q) == << -q[1], -q[2], -q[3], q[4] >>

\* R.from_euler("yx", [yaw, pitch], degrees=True): extrinsic, the rotation
\* about y by yaw is applied first, then the rotation about x by pitch.
from_euler_yx(yaw, pitch) ==
    quat_mul(<< SinHalf(pitch), 0, 0, CosHalf(pitch) >>,
             << 0, SinHalf(yaw), 0, CosHalf(yaw) >>)

\* The other direction of composition: inverse(view) * reference.
relative_rotation_swapped(R_ref_world, R_view_world) ==
    quat_mul(quat_inv(R_view_world), R_ref_world)

\* R_ref_view = R_ref_world * R_view_world.inv()
relative_rotation(R_ref_world, R_view_world) ==
    quat_mul(R_ref_world, quat_inv(R_view_world))

\* A variant with the scalar component left in last place.
qvec_unordered(qvec_scipy) == qvec_scipy

\* (x, y, z, w) -> (w, x, y, z)
qvec_colmap(qvec_scipy) ==
    << qvec_scipy[4], qvec_scipy[1], qvec_scipy[2], qvec_scipy[3] >>

\* create_rig_config, the consumer of the rig document:
\* pycolmap.Rotation3d([wxyz[1], wxyz[2], wxyz[3], wxyz[0]]), i.e. (x, y, z, w).
rotation3d_from_wxyz(wxyz) == << wxyz[2], wxyz[3], wxyz[4], wxyz[1] >>

\* ---------------------------------------------------- _save_colmap_camera_rig
\* A variant that writes the pose fields and the flag for every camera.
rig_camera_with_pose(p, R_ref_world) ==
    [ image_prefix |-> p.image_prefix,
      ref_sensor |-> p.ref_sensor,
      cam_from_rig_translation |-> << 0, 0, 0 >>,
      cam_from_rig_rotation |->
          qvec_colmap(relative_rotation(R_ref_world, from_euler_yx(p.yaw, p.pitch))) ]

\* The entry of one camera_rig_params item.
rig_camera(p, R_ref_world) ==
    LET R_view_world == from_euler_yx(p.yaw, p.pitch)
        R_ref_view == relative_rotation(R_ref_world, R_view_world)
        tvec == << 0, 0, 0 >>
    IN  IF p.ref_sensor
        THEN [ image_prefix |-> p.image_prefix, ref_sensor |-> p.ref_sensor ]
        ELSE [ image_prefix |-> p.image_prefix,
               cam_from_rig_translation |-> tvec,
               cam_from_rig_rotation |-> qvec_colmap(R_ref_view) ]

\* The reference orientation is the first view of the current catalog.
rig_cameras(rig_params) ==
    LET ref_view == params.views[1]
        R_ref_world == from_euler_yx(ref_view.yaw, ref_view.pitch)
    IN  [ i \in 1..Len(rig_params) |-> rig_camera(rig_params[i], R_ref_world) ]

\* Returns without writing when the catalog is empty.
save_colmap_camera_rig ==
    /\ UNCHANGED runner
    /\ pc = "save_rig"
    /\ IF Len(params.views) = 0
       THEN UNCHANGED rig_doc
       ELSE rig_doc' = Written(<< [ cameras |-> rig_cameras(camera_rig_params) ] >>)
    /\ pc' = "done"
    /\ UNCHANGED << error, procVars, video_file, video_opened, frame_count, extractVars,
                    genVars, camera_params_doc >>

\* process_video returned or raised: its locals are gone, the object stays.
Return ==
    /\ UNCHANGED runner
    /\ pc \in { "done", "failed" }
    /\ pc' = "idle"
    /\ error' = "none"
    /\ RunLocalsClear
    /\ UNCHANGED procVars

\* ----------------------------------------------------------- specification
Next ==
    \/ Construct(DefaultParams)
    \/ \E p \in ParamChoices : Construct(p)
    \/ \E p \in ParamChoices : set_params(p)
    \/ \E N \in 0..MaxFrames, opened \in BOOLEAN : process_video(N, opened)
    \/ \E N \in 0..MaxFrames, e \in BadArgumentErrors : process_video_frames(N, e)
    \/ \E ret \in BOOLEAN : extract_frames_step(ret)
    \/ extract_frames_return
    \/ \E ok \in BOOLEAN : generate_pinhole_step(ok)
    \/ generate_pinhole_loops_end
    \/ save_camera_params
    \/ save_colmap_camera_rig
    \/ Return

Spec == Init /\ [][Next]_vars

\* The same processor driven by callers that vary the intrinsics.
NextIntr ==
    \/ \E p \in IntrinsicsChoices : Construct(p)
    \/ \E p \in IntrinsicsChoices : set_params(p)
    \/ \E N \in 0..MaxFrames, opened \in BOOLEAN : process_video(N, opened)
    \/ \E N \in 0..MaxFrames, e \in BadArgumentErrors : process_video_frames(N, e)
    \/ \E ret \in BOOLEAN : extract_frames_step(ret)
    \/ extract_frames_return
    \/ \E ok \in BOOLEAN : generate_pinhole_step(ok)
    \/ generate_pinhole_loops_end
    \/ save_camera_params
    \/ save_colmap_camera_rig
    \/ Return

SpecIntr == Init /\ [][NextIntr]_vars

\* ------------------------------------------------- catalogs of the callers
\* views[name] = (pitch, yaw) on a dict: replace the value of an existing key
\* in place, append a new key at the end.
dict_set(c, v) ==
    IF v.name \in Names(c)
    THEN [ i \in 1..Len(c) |-> IF c[i].name = v.name THEN v ELSE c[i] ]
    ELSE Append(c, v)

RECURSIVE dict_set_all(_, _)
dict_set_all(c, entries) ==
    IF entries = << >> THEN c
    ELSE dict_set_all(dict_set(c, Head(entries)), Tail(entries))

\* str() of a float with an integral value: 35.0, -90.0.
FloatStr(x) == ToString(x) \o ".0"
\* str(-x) of such a float: the negation of 0.0 is -0.0.
NegFloatStr(x) == IF x = 0 THEN "-0.0" ELSE FloatStr(-x)

\* yaw = (i * yaw_step + yaw_offset) % 360; if yaw > 180: yaw -= 360
node_yaw(i, yaw_step, yaw_offset) ==
    LET yaw == (i * yaw_step + yaw_offset) % 360
    IN  IF yaw > 180 THEN yaw - 360 ELSE yaw

\* OmniParameterControls.get_params: yaw_steps views at base_pitch, then
\* yaw_steps views at -base_pitch; cx, cy and the optional inputs arrive in
\* kwargs.  yaw_steps divides 360 here, so the angles stay whole degrees.
get_params(frame_interval, width, height, fov_h, fov_v, base_pitch, yaw_steps, yaw_offset, kwargs) ==
    LET yaw_step == 360 \div yaw_steps
        positive == [ i \in 1..yaw_steps |->
                        LET yaw == node_yaw(i - 1, yaw_step, yaw_offset)
                        IN  View("pitch_" \o FloatStr(base_pitch) \o "_yaw_" \o FloatStr(yaw),
                                 base_pitch, yaw) ]
        negative == [ i \in 1..yaw_steps |->
                        LET yaw == node_yaw(i - 1, yaw_step, yaw_offset)
                        IN  View("pitch_" \o NegFloatStr(base_pitch) \o "_yaw_" \o FloatStr(yaw),
                                 -base_pitch, yaw) ]
    IN  kwargs @@ [ frame_interval |-> frame_interval, width |-> width,
                    height |-> height, fov_h |-> fov_h, fov_v |-> fov_v,
                    views |-> dict_set_all(dict_set_all(<< >>, positive), negative) ]

\* OmniConverterUI._update_views
update_views(pitch, yaw, current_views) ==
    dict_set(current_views,
             View("pitch_" \o ToString(pitch) \o "_yaw_" \o ToString(yaw), pitch, yaw))

\* Values of the node's inputs, within their declared ranges.
BasePitches == { -90, 0, 35, 90 }
YawStepChoices == { 1, 2, 3, 4, 5, 6, 8, 9, 10, 12 }
YawOffsets == { -180, -90, 0, 45, 180 }
NodeParams ==
    { get_params(24, 640, 640, 90, 90, bp, n, off, [cx |-> 320, cy |-> 320])
      : bp \in BasePitches, n \in YawStepChoices, off \in YawOffsets }

\* Values of the custom view sliders, within their ranges.
CustomPitches == { -90, 0, 35, 90 }
CustomYaws == { -180, -90, 0, 180 }
\* Custom views added in one session.
MaxCustomViews == 2

\* "Add Custom View" pressed with the sliders at (pitch, yaw), then "Convert":
\* the views state, which starts as the default catalog, goes to set_params.
ui_set_params(pitch, yaw) ==
    /\ pc = "idle"
    /\ Len(params.views) >= Len(DefaultViews)
    /\ SubSeq(params.views, 1, Len(DefaultViews)) = DefaultViews
    /\ Len(params.views) < Len(DefaultViews) + MaxCustomViews
    /\ set_params([ params EXCEPT !.views = update_views(pitch, yaw, @) ])

\* The processor as its callers configure it.
NextViews ==
    \/ Construct(DefaultParams)
    \/ \E p \in NodeParams : Construct(p)
    \/ \E pitch \in CustomPitches, yaw \in CustomYaws : ui_set_params(pitch, yaw)

SpecViews == Init /\ [][NextViews]_vars

\* --------------------------------------------------- reconstruction runners
\* How a command handed to subprocess.Popen ends: it could not be started
\* (FileNotFoundError) or it exited with a code.
CommandOutcomes ==
    { [ started |-> TRUE, code |-> 0 ], [ started |-> TRUE, code |-> 1 ],
      [ started |-> TRUE, code |-> 2 ], [ started |-> FALSE, code |-> 0 ] }

\* run_command: the exit code of the process, -1 when it cannot be started.
run_command(outcome) == IF outcome.started THEN outcome.code ELSE -1

\* A variant that never takes the return branch.
CommandNeverFailed(rc) == FALSE

\* if run_command(cmd) != 0: return
CommandFailed(rc) == rc # 0

CameraModels == { "PINHOLE", "SIMPLE_PINHOLE", "SIMPLE_RADIAL" }

\* main() of run_cmd_colmap_rig_sfm.py up to its first command: it returns at
\* once when the image directory or the rig file is missing.
main(camera_model, camera_config, visualize, paths_exist) ==
    /\ runner.pc \in { "none", "ended" }
    /\ runner' = [ kind |-> "cmd", camera_model |-> camera_model,
                   camera_config |-> camera_config, visualize |-> visualize,
                   pc |-> IF paths_exist THEN "feature_extractor" ELSE "ended",
                   executed |-> << >>, error |-> "none" ]
    /\ UNCHANGED processorVars

\* One "if run_command(cmd) != 0: return" of main.
main_command(step, outcome, next) ==
    /\ runner.kind = "cmd"
    /\ runner.pc = step
    /\ LET rc == run_command(outcome)
       IN  runner' = [ runner EXCEPT
                         !.executed = Append(@, [ step |-> step, rc |-> rc ]),
                         !.pc = IF CommandFailed(rc) THEN "ended" ELSE next ]
    /\ UNCHANGED processorVars

main_feature_extractor(outcome) ==
    main_command("feature_extractor", outcome,
                 IF runner.camera_config THEN "update_database" ELSE "sequential_matcher")

\* if camera_config: update_database_camera_model(...)
main_update_database ==
    /\ runner.kind = "cmd"
    /\ runner.pc = "update_database"
    /\ runner' = [ runner EXCEPT
                     !.executed = Append(@, [ step |-> "update_database", rc |-> 0 ]),
                     !.pc = "sequential_matcher" ]
    /\ UNCHANGED processorVars

main_sequential_matcher(outcome) ==
    main_command("sequential_matcher", outcome, "rig_configurator")

main_rig_configurator(outcome) ==
    main_command("rig_configurator", outcome, "mapper")

main_mapper(outcome) ==
    main_command("mapper", outcome, IF runner.visualize THEN "gui" ELSE "ended")

\* The visualizer's return code is not looked at: main ends after it.
main_gui(outcome) ==
    /\ runner.kind = "cmd"
    /\ runner.pc = "gui"
    /\ runner' = [ runner EXCEPT
                     !.executed = Append(@, [ step |-> "gui", rc |-> run_command(outcome) ]),
                     !.pc = "ended" ]
    /\ UNCHANGED processorVars

\* The cmds list of OmniReconstructionNode.run_reconstruction.
cmds == << "feature_extractor", "sequential_matcher", "mapper" >>

\* What os.system returns: 0, or the wait status of a failed command (256 for
\* exit code 1, 32512 when the shell cannot find the program).
SystemStatuses == { 0, 256, 32512 }

\* run_reconstruction up to its loop over cmds.
run_reconstruction ==
    /\ runner.pc \in { "none", "ended" }
    /\ runner' = [ kind |-> "node", camera_model |-> "PINHOLE", camera_config |-> FALSE,
                   visualize |-> FALSE, pc |-> "cmds", executed |-> << >>,
                   error |-> "none" ]
    /\ UNCHANGED processorVars

\* One turn of "for cmd in cmds": os.system, RuntimeError on a non-zero return.
run_reconstruction_cmd(ret) ==
    /\ runner.kind = "node"
    /\ runner.pc = "cmds"
    /\ LET i == Len(runner.executed) + 1
       IN  runner' = [ runner EXCEPT
                         !.executed = Append(@, [ step |-> cmds[i], rc |-> ret ]),
                         !.error = IF ret # 0 THEN "RuntimeError" ELSE "none",
                         !.pc = IF ret # 0 \/ i = Len(cmds) THEN "ended" ELSE "cmds" ]
    /\ UNCHANGED processorVars

NextRunners ==
    \/ \E m \in CameraModels, c, v, e \in BOOLEAN : main(m, c, v, e)
    \/ \E o \in CommandOutcomes : main_feature_extractor(o)
    \/ main_update_database
    \/ \E o \in CommandOutcomes : main_sequential_matcher(o)
    \/ \E o \in CommandOutcomes : main_rig_configurator(o)
    \/ \E o \in CommandOutcomes : main_mapper(o)
    \/ \E o \in CommandOutcomes : main_gui(o)
    \/ run_reconstruction
    \/ \E ret \in SystemStatuses : run_reconstruction_cmd(ret)

SpecRunners == Init /\ [][NextRunners]_vars

\* ------------------------------------------------------------------ claims
\* A call of process_video is past its first statement.
InRun == pc \notin { "new", "idle" }

\* _extract_frames has returned in the current run.
ExtractReturned ==
    \/ pc \in { "generate", "save_params", "save_rig", "done" }
    \/ (pc = "failed" /\ video_opened)

\* The indices 0, k, 2k, ... below N, in increasing order.
SampledIndices(N, k) == [ j \in 1..((N + k - 1) \div k) |-> (j - 1) * k ]

Cameras(doc) == doc.content[1].cameras

IsRefEntry(e) == "ref_sensor" \in DOMAIN e /\ e.ref_sensor = TRUE

RefEntries(doc) == { i \in 1..Len(Cameras(doc)) : IsRefEntry(Cameras(doc)[i]) }

\* C1: for a non-empty catalog, the rig document a run writes has exactly one
\* camera entry flagged as reference, whatever constructions, set_params
\* calls and runs came before and however many frames were sampled.
C1_ExactlyOneReference ==
    (InRun /\ rig_doc.written /\ Len(params.views) > 0)
        => Cardinality(RefEntries(rig_doc)) = 1

\* C2: when every read succeeds, _extract_frames returns exactly the frames
\* at source indices 0, k, 2k, ... below the frame count, in increasing
\* order, each once.
C2_SamplesEveryKth ==
    (ExtractReturned /\ read_failed_at = -1)
        => pano_images = SampledIndices(frame_count, params.frame_interval)

C2_Witness ==
    /\ ExtractReturned
    /\ read_failed_at = -1
    /\ params.frame_interval = 3
    /\ pano_images = << 0, 3 >>

\* C3: when the read at source index j fails, the loop stops without an
\* error, nothing at or after j is read again or returned, and the frames
\* returned are those at the sampled indices below j.
C3_FailedReadEndsSampling ==
    read_failed_at >= 0
        => /\ ExtractReturned
           /\ error = IF pc = "failed" THEN "RenderError" ELSE "none"
           /\ reads = read_failed_at + 1
           /\ pano_images = SampledIndices(read_failed_at, params.frame_interval)
           /\ \A i \in 1..Len(pano_images) : pano_images[i] < read_failed_at

C3_Witness ==
    /\ read_failed_at = 3
    /\ frame_count = 4
    /\ params.frame_interval = 2
    /\ pano_images = << 0, 2 >>
    /\ pc = "done"

\* C4: when the video cannot be opened, process_video raises before any
\* frame is read, extracted or rendered and writes neither document.
C4_UnopenableVideoFails ==
    (InRun /\ video_file = "path" /\ ~video_opened)
        => /\ pc = "failed"
           /\ error = "IOError"
           /\ reads = 0
           /\ pano_images = << >>
           /\ pano_files = {}
           /\ pinhole_images = << >>
           /\ pinhole_files = {}
           /\ ~camera_params_doc.written
           /\ ~rig_doc.written

C4_Witness == pc = "failed" /\ error = "IOError" /\ ~video_opened /\ frame_count > 0

\* C5: a completed run with F sampled frames and V views has F*V image
\* records and F*V camera_params entries, one per (frame, view) pair in
\* frame-major catalog order, and a rig document with 1 reference camera and
\* V-1 relative cameras.
FrameMajor(records, V) ==
    \A f \in 1..Len(pano_images), v \in 1..V :
        /\ records[(f - 1) * V + v].pano_index = f - 1
        /\ records[(f - 1) * V + v].image_prefix = params.views[v].name

C5_RunCounts ==
    (pc = "done" /\ Len(pano_images) >= 1 /\ Len(params.views) >= 1)
        => LET F == Len(pano_images)
               V == Len(params.views)
           IN  /\ Len(pinhole_images) = F * V
               /\ camera_params_doc.written
               /\ Len(camera_params_doc.content) = F * V
               /\ FrameMajor(camera_params_doc.content, V)
               /\ rig_doc.written
               /\ Len(Cameras(rig_doc)) = V
               /\ Cardinality(RefEntries(rig_doc)) = 1

\* C6: a failure while rendering one (frame, view) pair does not abort the
\* batch: the run goes on, the failure is recorded for its pair, and when the
\* run ends every other pair is rendered and the documents are written.
C6_RenderFailureIsolated ==
    (InRun /\ render_failed_at # << >>)
        => /\ pc # "failed"
           /\ (pc = "done"
                 => /\ Len(pinhole_images) = Len(pano_images) * Len(params.views) - 1
                    /\ camera_params_doc.written)

\* The current call of process_video has ended, by return or by exception.
RunEnded == pc \in { "done", "failed" }

\* C7: a run (on a video that opens) whose catalog is empty reads, renders
\* and writes nothing, and it ends only by failing with EmptyCatalog; it
\* never completes.
C7_EmptyCatalogRejected ==
    (InRun /\ video_opened /\ Len(params.views) = 0)
        => /\ reads = 0
           /\ pano_files = {}
           /\ ~camera_params_doc.written
           /\ (RunEnded => pc = "failed" /\ error = "EmptyCatalog")

\* C8: a run (on a video that opens, in which no render raises) whose
\* reference name is not a key of the non-empty catalog in use emits no rig
\* document, and it ends only by failing with UnknownReference.
C8_UnknownReferenceRejected ==
    (InRun /\ video_opened /\ render_failed_at = << >>
           /\ Len(params.views) > 0 /\ ref_sensor \notin Names(params.views))
        => /\ ~rig_doc.written
           /\ (RunEnded => pc = "failed" /\ error = "UnknownReference")

\* C9: a run (on a video that opens, in which no render raises) whose fov_h
\* or fov_v is outside the open interval (0, 180) renders no image and emits
\* no camera record, and it ends only by failing with InvalidFieldOfView.
ValidFov(fov) == 0 < fov /\ fov < 180

C9_InvalidFovRejected ==
    (InRun /\ video_opened /\ render_failed_at = << >>
           /\ ~(ValidFov(params.fov_h) /\ ValidFov(params.fov_v)))
        => /\ pinhole_images = << >>
           /\ pinhole_files = {}
           /\ pinhole_camera_params = << >>
           /\ (RunEnded => pc = "failed" /\ error = "InvalidFieldOfView")

\* C10: every camera entry of the emitted rig is either the reference shape
\* (image_prefix and ref_sensor = true, no rotation, no translation) or the
\* relative shape (image_prefix, a rotation of 4 components, the translation
\* [0,0,0], no ref_sensor flag).
RefShape(e) ==
    /\ DOMAIN e = { "image_prefix", "ref_sensor" }
    /\ e.ref_sensor = TRUE

RelativeShape(e) ==
    /\ DOMAIN e = { "image_prefix", "cam_from_rig_translation", "cam_from_rig_rotation" }
    /\ Len(e.cam_from_rig_rotation) = 4
    /\ e.cam_from_rig_translation = << 0, 0, 0 >>

C10_TwoEntryShapes ==
    rig_doc.written
        => \A i \in 1..Len(Cameras(rig_doc)) :
               RefShape(Cameras(rig_doc)[i]) \/ RelativeShape(Cameras(rig_doc)[i])

C10_Witness ==
    /\ rig_doc.written
    /\ \E i, j \in 1..Len(Cameras(rig_doc)) :
           RefShape(Cameras(rig_doc)[i]) /\ RelativeShape(Cameras(rig_doc)[j])

\* C11: whatever constructions and set_params calls came before, a camera
\* flagged as reference, in the emitted rig or in camera_params, is the first
\* view of the catalog used for the run (the view whose orientation
\* _save_colmap_camera_rig takes as R_ref_world).
C11_ReferenceIsFirstView ==
    InRun =>
        /\ rig_doc.written =>
               \A i \in 1..Len(Cameras(rig_doc)) :
                   IsRefEntry(Cameras(rig_doc)[i])
                       => Cameras(rig_doc)[i].image_prefix = params.views[1].name
        /\ \A i \in 1..Len(camera_params_doc.content) :
               camera_params_doc.content[i].ref_sensor
                   => camera_params_doc.content[i].image_prefix = params.views[1].name

\* C12: the emitted rig has exactly one camera entry per catalog view, in
\* catalog order, however many frames were sampled (zero included).
C12_RigFollowsCatalog ==
    (InRun /\ rig_doc.written)
        => /\ Len(Cameras(rig_doc)) = Len(params.views)
           /\ \A i \in 1..Len(params.views) :
                  Cameras(rig_doc)[i].image_prefix = params.views[i].name

\* The catalog view an emitted entry belongs to.
ViewOf(prefix) ==
    params.views[CHOOSE i \in 1..Len(params.views) : params.views[i].name = prefix]

Abs(x) == IF x >= 0 THEN x ELSE -x

\* Equal up to the rounding of the products (2 units of 1/Scale).
QuatClose(a, b) == \A i \in 1..4 : Abs(a[i] - b[i]) <= 2

\* The orientation _save_colmap_camera_rig takes as the reference: that of
\* the first view of the catalog in use.
RefWorld == from_euler_yx(params.views[1].yaw, params.views[1].pitch)

RelativeEntries(doc) ==
    { i \in 1..Len(Cameras(doc)) : "cam_from_rig_rotation" \in DOMAIN Cameras(doc)[i] }

\* C13: for every camera emitted with a rotation, the rotation composed with
\* the view's world orientation (yaw first, then pitch) is the world
\* orientation of the reference view, the first view of the catalog; a view
\* with the reference's (pitch, yaw) gets the identity.
C13_RelativeComposesToReference ==
    (InRun /\ rig_doc.written)
        => \A i \in RelativeEntries(rig_doc) :
               LET e == Cameras(rig_doc)[i]
                   v == ViewOf(e.image_prefix)
                   R_rel == rotation3d_from_wxyz(e.cam_from_rig_rotation)
                   R_view == from_euler_yx(v.yaw, v.pitch)
               IN  /\ QuatClose(quat_mul(R_rel, R_view), RefWorld)
                   /\ (v.pitch = params.views[1].pitch /\ v.yaw = params.views[1].yaw)
                          => QuatClose(R_rel, << 0, 0, 0, Scale >>)

\* A rig with a relative camera that differs from the reference in pitch and yaw.
C13_Witness ==
    /\ InRun
    /\ rig_doc.written
    /\ \E i \in RelativeEntries(rig_doc) :
           LET v == ViewOf(Cameras(rig_doc)[i].image_prefix)
           IN  /\ v.pitch # params.views[1].pitch
               /\ v.yaw # params.views[1].yaw
               /\ ~QuatClose(rotation3d_from_wxyz(Cameras(rig_doc)[i].cam_from_rig_rotation),
                             << 0, 0, 0, Scale >>)

\* The quaternion, in scipy's (x, y, z, w) order, computed for an emitted entry.
InternalRotation(e) ==
    LET v == ViewOf(e.image_prefix)
    IN  relative_rotation(RefWorld, from_euler_yx(v.yaw, v.pitch))

\* C14: the emitted rotation is the internal (x, y, z, w) quaternion with its
\* components reordered to (w, x, y, z), none dropped, duplicated or changed,
\* and the consumer's reordering in create_rig_config gives back (x, y, z, w).
C14_ReorderRoundTrip ==
    (InRun /\ rig_doc.written)
        => \A i \in RelativeEntries(rig_doc) :
               LET e == Cameras(rig_doc)[i]
                   q == InternalRotation(e)
               IN  /\ e.cam_from_rig_rotation = << q[4], q[1], q[2], q[3] >>
                   /\ rotation3d_from_wxyz(e.cam_from_rig_rotation) = q

\* An emitted rotation whose four components are pairwise different.
C14_Witness ==
    /\ InRun
    /\ rig_doc.written
    /\ \E i \in RelativeEntries(rig_doc) :
           Cardinality({ Cameras(rig_doc)[i].cam_from_rig_rotation[n] : n \in 1..4 }) = 4

\* The caller left the principal point at the value the sliders start with.
PrincipalPointDefaulted ==
    params.cx = DefaultParams.cx /\ params.cy = DefaultParams.cy

\* C15: when the principal point is not overridden every emitted camera record
\* has cx = width/2 and cy = height/2 for the run's width and height; when it
\* is overridden the record carries the overriding values.
C15_PrincipalPoint ==
    (InRun /\ camera_params_doc.written)
        => \A i \in 1..Len(camera_params_doc.content) :
               LET r == camera_params_doc.content[i]
               IN  IF PrincipalPointDefaulted
                   THEN 2 * r.cx = params.width /\ 2 * r.cy = params.height
                   ELSE r.cx = params.cx /\ r.cy = params.cy

\* (size / 2) / tan(fov / 2), in 1/FocalUnit pixels.
ExpectedFocal(size, fov_deg) ==
    LET t == TanHalf(fov_deg)
    IN  IF t.kind = "huge" THEN [kind |-> "finite", v |-> 0]
        ELSE IF t.v = 0 THEN [kind |-> "inf", v |-> 0]
        ELSE [kind |-> "finite",
              v |-> RoundDiv(((size * FocalUnit) \div 2) * Scale, t.v)]

\* C16: in every emitted camera record fx = (width/2)/tan(fov_h/2) and
\* fy = (height/2)/tan(fov_v/2) for the record's own width, height and fields
\* of view, whatever fx and fy the configuration supplies.
C16_FocalFromFov ==
    (InRun /\ camera_params_doc.written)
        => \A i \in 1..Len(camera_params_doc.content) :
               LET r == camera_params_doc.content[i]
               IN  /\ r.fx = ExpectedFocal(r.width, r.fov_h)
                   /\ r.fy = ExpectedFocal(r.height, r.fov_v)

\* A record emitted by a run whose configured fx is not the derived one.
C16_Witness ==
    /\ InRun
    /\ camera_params_doc.written
    /\ \E i \in 1..Len(camera_params_doc.content) :
           LET r == camera_params_doc.content[i]
           IN  /\ r.fx.kind = "finite"
               /\ r.fx.v # params.fx * FocalUnit
               /\ r.fy.v # params.fy * FocalUnit
               /\ r.width # r.height

\* C17: processing accepts an in-memory batch of frames as it accepts a stream:
\* a run on a batch of N frames completes with the frames at 0, k, 2k, ... < N
\* sampled and one output record per (sampled frame, view), as a run on a
\* stream of the same N frames does.
C17_BatchLikeStream ==
    (RunEnded /\ video_file = "frames" /\ Len(params.views) >= 1)
        => /\ pc = "done"
           /\ pano_images = SampledIndices(frame_count, params.frame_interval)
           /\ Len(pinhole_images) = Len(pano_images) * Len(params.views)
           /\ camera_params_doc.written

\* The run holds a camera record for the frame of source index idx and view v.
HasRecord(idx, v) ==
    \E f \in 1..Len(pano_images) :
        /\ pano_images[f] = idx
        /\ \E i \in 1..Len(pinhole_camera_params) :
               /\ pinhole_camera_params[i].pano_index = f - 1
               /\ pinhole_camera_params[i].image_prefix = v.name

\* C18: when a run on a stream of N frames has ended, every requested pair
\* (source index 0, k, 2k, ... < N, catalog view) has an output record, or the
\* run recorded why not (it ended with an error); nothing is dropped silently.
C18_NothingDroppedSilently ==
    (RunEnded /\ video_file = "path")
        => LET req == SampledIndices(frame_count, params.frame_interval)
           IN  \A j \in 1..Len(req), v \in 1..Len(params.views) :
                   HasRecord(req[j], params.views[v]) \/ error # "none"

\* C19: the frame index recorded for a pinhole image, in pano_index and in the
\* image file name, is the source index (0, k, 2k, ...) of the frame it was
\* rendered from, the index that names the saved panorama frame.
C19_RecordsSourceIndex ==
    InRun
        => \A i \in 1..Len(pinhole_camera_params) :
               \E f \in 1..Len(pano_images) :
                   /\ pinhole_camera_params[i].pano_index = pano_images[f]
                   /\ pinhole_camera_params[i].image_name = PinholeName(pano_images[f])
                   /\ PanoName(pano_images[f]) \in pano_files
                   /\ i > (f - 1) * Len(params.views)
                   /\ i <= f * Len(params.views)

\* The image_prefix/image_name key of a camera record.
RecordKey(r) == << r.image_prefix, r.image_name >>

\* C20: within a run distinct (frame, view) pairs go to distinct output slots:
\* no two camera records share their image_prefix/image_name key, and every
\* rendered image has a file of its own (none overwrote another).
C20_KeysInjective ==
    InRun
        => /\ \A i, j \in 1..Len(pinhole_camera_params) :
                  RecordKey(pinhole_camera_params[i]) = RecordKey(pinhole_camera_params[j])
                      => i = j
           /\ Cardinality(pinhole_files) = Len(pinhole_images)
           /\ \A i \in 1..Len(pinhole_camera_params) :
                  [ parent |-> pinhole_camera_params[i].image_prefix,
                    name |-> pinhole_camera_params[i].image_name ] \in pinhole_files

\* Two frames rendered into two views each.
C20_Witness ==
    /\ InRun
    /\ Len(params.views) = 2
    /\ Len(pano_images) >= 2
    /\ Len(pinhole_images) = 2 * Len(pano_images)
    /\ Len(pinhole_camera_params) = Len(pinhole_images)

\* C21: every view of a catalog that an entry point produces (the default
\* catalog, get_params, _update_views) has its pitch in [-90, 90] and its yaw
\* in (-180, 180], and the names of the catalog are unique keys.
C21_ViewsInRange ==
    (pc # "new")
        => /\ UniqueNames(params.views)
           /\ \A i \in 1..Len(params.views) :
                  /\ params.views[i].pitch >= -90
                  /\ params.views[i].pitch <= 90
                  /\ params.views[i].yaw > -180
                  /\ params.views[i].yaw <= 180

\* The same for the catalogs of get_params alone.
C21_NodeViewsInRange ==
    \A p \in NodeParams :
        /\ UniqueNames(p.views)
        /\ \A i \in 1..Len(p.views) :
               /\ p.views[i].pitch >= -90
               /\ p.views[i].pitch <= 90
               /\ p.views[i].yaw > -180
               /\ p.views[i].yaw <= 180

\* The order of the steps of a runner, for its arguments.
StepOrder ==
    IF runner.kind = "node"
    THEN << "feature_extractor", "sequential_matcher", "mapper" >>
    ELSE << "feature_extractor" >>
         \o (IF runner.camera_config THEN << "update_database" >> ELSE << >>)
         \o << "sequential_matcher", "rig_configurator", "mapper" >>
         \o (IF runner.visualize THEN << "gui" >> ELSE << >>)

\* C22: in both runners the steps run in the fixed order feature extraction,
\* [database camera update], matching, [rig configuration], mapping; once a
\* command has returned a non-zero code or could not be started, no later
\* command and no later database update is executed.
C22_FixedOrderFailStop ==
    (runner.kind # "none")
        => /\ Len(runner.executed) <= Len(StepOrder)
           /\ \A i \in 1..Len(runner.executed) :
                  /\ runner.executed[i].step = StepOrder[i]
                  /\ i < Len(runner.executed) => runner.executed[i].rc = 0
           /\ (Len(runner.executed) > 0
                 /\ runner.executed[Len(runner.executed)].rc # 0)
                  => runner.pc = "ended"

\* The command-line runner stopped at a matcher that could not be started,
\* after the feature extraction and the database update.
C22_Witness ==
    /\ runner.kind = "cmd"
    /\ runner.pc = "ended"
    /\ Len(runner.executed) = 3
    /\ runner.executed[2].step = "update_database"
    /\ runner.executed[3] = [ step |-> "sequential_matcher", rc |-> -1 ]

====
